---- MODULE Spec2Model ----
(***************************************************************************)
(* ImmerSync beat detector (src/src/main.ts).                              *)
(*                                                                         *)
(* main.ts holds two BeatDetector classes.  The first one (lines 1-181)    *)
(* is the impulse variant: kick/bass band impulses, a floor-plus-multiplier*)
(* threshold and a warm-up of HISTORY_SIZE ticks.  The second one (lines   *)
(* 395-630) is the energy/flux variant.  The variable "variant" selects    *)
(* the class; it is fixed for a whole behaviour.                           *)
(*                                                                         *)
(* Numbers: the code computes with IEEE doubles.  The model computes with  *)
(* exact rationals [n, d] (d > 0, lowest terms); clock values are integer  *)
(* milliseconds.                                                           *)
(*                                                                         *)
(* Scheduling: requestAnimationFrame callbacks registered during a frame   *)
(* run in the next frame, in registration order.  "pending" is the list of *)
(* callbacks registered for the next frame, "curFrame" the callbacks of    *)
(* the running frame that have not run yet.  Method calls from outside     *)
(* (start, stop, cleanup, init, timers, events) are tasks of their own and *)
(* never run inside a frame.                                               *)
(***************************************************************************)
EXTENDS Integers, Sequences, FiniteSets, TLC

----------------------------------------------------------------------------
(* Bounds of the model                                                     *)

\* the clock stops advancing at MaxClock
MaxClock == 600
\* one clock advance, in ms
ClockStep == 100
\* detectBeats ticks that process a snapshot, per behaviour: impulse variant
\* (the warm-up takes HISTORY_SIZE of them) and flux variant
MaxTicks == 32
MaxFluxTicks == 4
\* non-silent snapshots the analyser delivers, per behaviour of Spec
MaxLoud == 2
\* non-silent snapshots the analyser delivers, per behaviour of SpecSignal
MaxSignalLoud == 1
\* calls of init, start, stop and cleanup per behaviour
MaxCalls == 3
\* init() calls in flight at the same time
MaxInits == 1
\* animation-frame callbacks registered at the same time
MaxCallbacks == 4
\* bins per snapshot held by the model; the real arrays hold FFT_SIZE / 2
\* bins, of which no band reads beyond bin 11
BinCount == 12
\* detectBeats ticks per behaviour of SpecLong, more than either history holds
MaxLongTicks == 45
\* bins per snapshot in SpecEnergy, where the band-energy functions are
\* applied to snapshots of any content
MaxProbeLen == 3
\* elements of the page that the selectors can match
MaxElements == 2
\* failed retries followed between two finds
MaxRetries == 4

----------------------------------------------------------------------------
(* Program constants                                                       *)

FFT_SIZE == 2048
KICK_MIN_HZ == 40
KICK_MAX_HZ == 120
BASS_MIN_HZ == 120
BASS_MAX_HZ == 250
MIN_BEAT_INTERVAL == 250
HISTORY_SIZE == 30
LOOKAHEAD_MS == 100
DefaultSampleRate == 44100
\* waitForCiderAudio sleeps this long before each poll
POLL_MS == 200
MAX_POLLS == 75

FluxFFT_SIZE == 1024
FluxBASS_MAX_HZ == 150
FLUX_MAX_HZ == 200
FluxMIN_BEAT_INTERVAL == 150
ENERGY_HISTORY_SIZE == 43

NULL == 0
\* this.prevFreqData = null: a value that is no Uint8Array of any length
NoArray == <<-1>>

----------------------------------------------------------------------------
(* Exact rationals standing for the code's doubles                         *)

Min(a, b) == IF a <= b THEN a ELSE b
Abs(x) == IF x < 0 THEN 0 - x ELSE x

RECURSIVE GCD(_, _)
GCD(a, b) == IF b = 0 THEN a ELSE GCD(b, a % b)

Rat(n, d) == LET g == GCD(Abs(n), d) IN [n |-> n \div g, d |-> d \div g]
Zero == [n |-> 0, d |-> 1]
\* 0 / 0 in the code's doubles
NaN == [n |-> 0, d |-> 0]
One == [n |-> 1, d |-> 1]

RatAdd(a, b) ==
    LET g == GCD(a.d, b.d)
    IN  Rat(a.n * (b.d \div g) + b.n * (a.d \div g), (a.d \div g) * b.d)
RatSub(a, b) == RatAdd(a, [n |-> 0 - b.n, d |-> b.d])
RatMul(a, b) ==
    LET g1 == GCD(Abs(a.n), b.d)
        g2 == GCD(Abs(b.n), a.d)
    IN  [n |-> (a.n \div g1) * (b.n \div g2), d |-> (a.d \div g2) * (b.d \div g1)]
RatDivInt(a, k) == RatMul(a, [n |-> 1, d |-> k])
\* an/ad < bn/bd for ad, bd > 0, by integer parts and then the reciprocals of
\* the fractional parts (no product is formed, so nothing overflows)
RECURSIVE FracLess(_, _, _, _)
FracLess(an, ad, bn, bd) ==
    LET qa == an \div ad
        qb == bn \div bd
        ra == an % ad
        rb == bn % bd
    IN  IF qa # qb THEN qa < qb
        ELSE IF rb = 0 THEN FALSE
        ELSE IF ra = 0 THEN TRUE
        ELSE FracLess(bd, rb, ad, ra)
RatGt(a, b) == FracLess(b.n, b.d, a.n, a.d)
RatMax(a, b) == IF RatGt(b, a) THEN b ELSE a

\* the sum of a history; exact addition is associative, so the halves are
\* added separately
RECURSIVE RatSum(_)
RatSum(s) ==
    IF s = <<>> THEN Zero
    ELSE IF Len(s) = 1 THEN s[1]
    ELSE LET half == Len(s) \div 2
         IN  RatAdd(RatSum(SubSeq(s, 1, half)), RatSum(SubSeq(s, half + 1, Len(s))))

\* Math.floor(hz / (sampleRate / fftSize))
HzToBin(hz, sampleRate, fftSize) == (hz * fftSize) \div sampleRate

\* the element read as a signed byte (Int8Array in place of Uint8Array)
BinSigned(data, i) == IF data[i + 1] > 127 THEN data[i + 1] - 256 ELSE data[i + 1]

\* bins are numbered from 0 in the code; a snapshot is a sequence, bin i is
\* data[i + 1]
Bin(data, i) == data[i + 1]

RECURSIVE SumBins(_, _, _)
SumBins(data, lo, hi) ==
    IF lo > hi THEN 0 ELSE Bin(data, lo) + SumBins(data, lo + 1, hi)

----------------------------------------------------------------------------
(* Impulse variant: tunables and band energy                               *)

MIN_KICK_THRESHOLD == Rat(15, 100)
THRESHOLD_MULTIPLIER == Rat(15, 10)
DOMINANCE_FACTOR == Rat(11, 10)

\* the sum divided by the width of the band, not by its number of bins
getFrequencyRangeEnergyWidth(hasAnalyser, hasData, data, minHz, maxHz) ==
    IF ~hasAnalyser \/ ~hasData THEN Zero
    ELSE LET minBin == HzToBin(minHz, DefaultSampleRate, FFT_SIZE)
             maxBin == Min(HzToBin(maxHz, DefaultSampleRate, FFT_SIZE), Len(data) - 1)
         IN  IF minBin >= maxBin THEN Zero
             ELSE Rat(SumBins(data, minBin, maxBin), (maxBin - minBin) * 255)

\* hasAnalyser, hasData: this.analyser and this.dataArray are set.
\* sampleRate is this.audioContext?.sampleRate || 44100; the model's audio
\* context runs at the default rate.
getFrequencyRangeEnergy(hasAnalyser, hasData, data, minHz, maxHz) ==
    IF ~hasAnalyser \/ ~hasData THEN Zero
    ELSE LET minBin == HzToBin(minHz, DefaultSampleRate, FFT_SIZE)
             maxBin == Min(HzToBin(maxHz, DefaultSampleRate, FFT_SIZE), Len(data) - 1)
         IN  IF minBin >= maxBin THEN Zero
             ELSE Rat(SumBins(data, minBin, maxBin), (maxBin - minBin + 1) * 255)

----------------------------------------------------------------------------
(* Energy/flux variant: tunables and features                              *)

BASS_THRESHOLD == Rat(10, 100)
SPECTRAL_FLUX_WEIGHT == Rat(3, 10)
VARIANCE_TOLERANCE == Rat(5, 10000)

calculateBassEnergy(hasAnalyser, hasContext, frequencyData) ==
    IF ~hasAnalyser \/ ~hasContext THEN Zero
    ELSE LET maxBin == Min(HzToBin(FluxBASS_MAX_HZ, DefaultSampleRate, FluxFFT_SIZE),
                           Len(frequencyData) - 1)
         IN  IF maxBin < 1 THEN Zero
             ELSE Rat(SumBins(frequencyData, 0, maxBin), (maxBin + 1) * 255)

RECURSIVE PositiveDiffs(_, _, _, _)
PositiveDiffs(cur, prev, lo, hi) ==
    IF lo > hi THEN 0
    ELSE (IF Bin(cur, lo) - Bin(prev, lo) > 0 THEN Bin(cur, lo) - Bin(prev, lo) ELSE 0)
         + PositiveDiffs(cur, prev, lo + 1, hi)

\* the previous snapshot is kept, never overwritten
calculateSpectralFluxStale(prev, hasAnalyser, hasContext, frequencyData) ==
    IF prev = NoArray
    THEN [value |-> Zero, prev |-> [i \in 1..Len(frequencyData) |-> 0]]
    ELSE IF ~hasAnalyser \/ ~hasContext THEN [value |-> Zero, prev |-> prev]
    ELSE LET maxBin == Min(HzToBin(FLUX_MAX_HZ, DefaultSampleRate, FluxFFT_SIZE),
                           Len(frequencyData) - 1)
         IN  [value |-> IF (maxBin + 1) * 255 = 0 THEN NaN
                        ELSE Rat(PositiveDiffs(frequencyData, prev, 0, maxBin),
                                 (maxBin + 1) * 255),
              prev |-> prev]

\* calculateSpectralFlux: the value returned and the new this.prevFreqData
calculateSpectralFlux(prev, hasAnalyser, hasContext, frequencyData) ==
    IF prev = NoArray
    THEN [value |-> Zero, prev |-> [i \in 1..Len(frequencyData) |-> 0]]
    ELSE IF ~hasAnalyser \/ ~hasContext THEN [value |-> Zero, prev |-> prev]
    ELSE LET maxBin == Min(HzToBin(FLUX_MAX_HZ, DefaultSampleRate, FluxFFT_SIZE),
                           Len(frequencyData) - 1)
         IN  [value |-> IF (maxBin + 1) * 255 = 0 THEN NaN
                        ELSE Rat(PositiveDiffs(frequencyData, prev, 0, maxBin),
                                 (maxBin + 1) * 255),
              prev |-> frequencyData]

----------------------------------------------------------------------------
(* State                                                                   *)

VARIABLES
    variant,         \* "impulse" (main.ts 1-181) or "flux" (main.ts 395-630)
    audioContext,    \* BeatDetector.audioContext is set
    analyser,        \* BeatDetector.analyser is set
    dataArray,       \* BeatDetector.dataArray is set
    connected,       \* sourceNode.connect(this.analyser) was called on this.analyser
    rafId,           \* BeatDetector.rafId; NULL or an animation-frame handle
    lastBeatTime,
    kickHistory,     \* impulse variant
    prevKickEnergy,  \* impulse variant
    prevBassEnergy,  \* impulse variant
    energyHistory,   \* flux variant
    prevFreqData,    \* flux variant; NoArray or a snapshot
    beatBuffer,
    inits,           \* init() calls awaiting waitForCiderAudio, with their continuation
    pending,         \* callbacks registered for the next animation frame
    curFrame,        \* callbacks of the running frame still to run
    now,             \* performance.now()
    isEnabled,       \* the module-level flag of the plugin
    listening,       \* setup() has registered its playbackStateDidChange listener
    \* history variables, not read by the code
    ticks,           \* detectBeats ticks that processed a snapshot
    loud,            \* non-silent snapshots read so far
    calls,           \* calls of public methods so far
    enqueued,        \* log of the beats pushed: d the detection time, beat the value
                     \* pushed, tick and calls the counters at that moment
    delivered,       \* log of callback invocations: beat the entry removed, at the
                     \* clock value, stale whether a stop() had found the entry in
                     \* beatBuffer, queued the length of beatBuffer before
    stopped,         \* stop() was called and start() has not been called since
    stale,           \* beats that were in beatBuffer when stop() was called
    flashes,         \* log of the immersiveEffects.flash() calls made by the beat
                     \* callback: the beat delivered and the clock value
    probe,           \* the last two calls of a band-energy function: the snapshots
                     \* read, the band, and the values returned
    \* ImmersiveEffects (main.ts 183-303) and its page
    immersiveElement,  \* NoElement or the element found
    isFlashing,
    observer,          \* a MutationObserver is attached
    retryTimer,        \* NULL or the handle of the retry timer
    retryIntervalMs,
    timers,            \* the timeouts set and neither fired nor cleared: fn the
                       \* callback, delay the delay given to setTimeout, el,
                       \* originalBackdropFilter and originalFilter the values
                       \* captured by the callbacks of flash()
    style,             \* el.style of every element: backdropFilter, filter, transition
    dom,               \* what document.querySelector finds for the selectors:
                       \* NoElement or the first element that matches
    retries            \* history variable: retries that failed since the element
                       \* was last found

\* the fields of ImmersiveEffects, and the page
evars == <<immersiveElement, isFlashing, observer, retryTimer, retryIntervalMs, timers,
           style, retries>>
\* the detector and the plugin
bvars == <<audioContext, analyser, dataArray, connected, rafId, lastBeatTime, kickHistory,
           prevKickEnergy, prevBassEnergy, energyHistory, prevFreqData, beatBuffer,
           inits, pending, curFrame, ticks, loud, calls, enqueued, delivered,
           stopped, stale, isEnabled, listening, flashes, probe>>
dvars == <<bvars, evars, dom>>
vars == <<variant, dvars, now>>

\* the fields a handler can change, as one record
Self ==
    [audioContext |-> audioContext, analyser |-> analyser, dataArray |-> dataArray,
     connected |-> connected, rafId |-> rafId, lastBeatTime |-> lastBeatTime, kickHistory |-> kickHistory,
     prevKickEnergy |-> prevKickEnergy, prevBassEnergy |-> prevBassEnergy,
     energyHistory |-> energyHistory, prevFreqData |-> prevFreqData,
     beatBuffer |-> beatBuffer, inits |-> inits, pending |-> pending,
     frame |-> curFrame,
     ticks |-> ticks, loud |-> loud, calls |-> calls,
     enqueued |-> enqueued, delivered |-> delivered, stopped |-> stopped,
     stale |-> stale, isEnabled |-> isEnabled, listening |-> listening,
     flashes |-> flashes, probe |-> probe]

Commit(s) ==
    /\ audioContext' = s.audioContext
    /\ analyser' = s.analyser
    /\ dataArray' = s.dataArray
    /\ connected' = s.connected
    /\ rafId' = s.rafId
    /\ lastBeatTime' = s.lastBeatTime
    /\ kickHistory' = s.kickHistory
    /\ prevKickEnergy' = s.prevKickEnergy
    /\ prevBassEnergy' = s.prevBassEnergy
    /\ energyHistory' = s.energyHistory
    /\ prevFreqData' = s.prevFreqData
    /\ beatBuffer' = s.beatBuffer
    /\ inits' = s.inits
    /\ pending' = s.pending
    /\ curFrame' = s.frame
    /\ ticks' = s.ticks
    /\ loud' = s.loud
    /\ calls' = s.calls
    /\ enqueued' = s.enqueued
    /\ delivered' = s.delivered
    /\ stopped' = s.stopped
    /\ stale' = s.stale
    /\ isEnabled' = s.isEnabled
    /\ listening' = s.listening
    /\ flashes' = s.flashes
    /\ probe' = s.probe
    /\ UNCHANGED <<evars, dom>>

Range(q) == {q[i] : i \in DOMAIN q}

----------------------------------------------------------------------------
(* Snapshots the analyser delivers (getByteFrequencyData)                  *)

Snap(loudBins, level) == [i \in 1..BinCount |-> IF (i - 1) \in loudBins THEN level ELSE 0]

Silence == Snap({}, 0)
\* a kick: bins 1..4 full; kick band 4/5, bass band 0
KickHit == Snap(1..4, 255)
\* a hum above the kick band: bin 5 is shared by both bands; kick 1/5, bass 1
BassHum == Snap(5..11, 255)
\* a weak kick: kick band 3 * 51 / (5 * 255) = 0.12, below the floor
SoftHit == Snap(1..3, 51)

\* a faint tone in bin 1: kick band 0.04; flux variant: bass 0.05, flux 0.04
Murmur == Snap({1}, 51)

\* two levels of a steady low tone over bins 0..4 (flux variant: bass energy
\* 30/255 and 40/255)
Lull == Snap(0..4, 30)
Swell == Snap(0..4, 40)
\* every bin at full scale (flux variant: bass energy 1, flux 1 after silence)
Blast == Snap(0..(BinCount - 1), 255)
\* the snapshots of SpecFlux
FluxSnapshots == {Silence, Lull, Swell, Blast}

\* the snapshots of SpecSignal, and the two of them that Spec uses
Snapshots == {Silence, KickHit, BassHum, SoftHit, Murmur}
PlainSnapshots == {Silence, KickHit}

\* a zero-filled Uint8Array of the snapshot length
ZeroArray == [i \in 1..BinCount |-> 0]

----------------------------------------------------------------------------
(* Animation frames                                                        *)

\* the handles of the callbacks still registered; s.frame holds the callbacks
\* of the running frame that have not run yet
LiveIds(s) == {c.id : c \in Range(s.pending) \cup Range(s.frame)}

\* Handles are only compared for equality (cancelAnimationFrame) and tested
\* for truthiness, so the model hands out the least positive handle that no
\* registered callback has and that the field rafId will not hold afterwards.
FreshId(used) == CHOOSE i \in 1..(MaxCallbacks + 4) :
                     /\ i \notin used
                     /\ \A j \in 1..(i - 1) : j \in used

\* this.rafId = requestAnimationFrame(this.detectBeats)
requestDetect(s) ==
    LET id == FreshId(LiveIds(s))
    IN  [s EXCEPT !.pending = Append(@, [id |-> id, fn |-> "detect"]), !.rafId = id]

\* requestAnimationFrame(this.processBeats); the handle is dropped
requestProcess(s) ==
    [s EXCEPT !.pending = Append(@, [id |-> FreshId(LiveIds(s) \cup {s.rafId}),
                                     fn |-> "process"])]

RECURSIVE Without(_, _)
Without(q, id) ==
    IF q = <<>> THEN <<>>
    ELSE IF Head(q).id = id THEN Without(Tail(q), id)
    ELSE <<Head(q)>> \o Without(Tail(q), id)

cancelAnimationFrame(s, id) ==
    [s EXCEPT !.pending = Without(@, id), !.frame = Without(@, id)]

NumLoops(fn) ==
    Cardinality({i \in DOMAIN pending : pending[i].fn = fn})
    + Cardinality({i \in DOMAIN curFrame : curFrame[i].fn = fn})

----------------------------------------------------------------------------
(* The detect step                                                         *)

\* a full history keeps what it has and drops the new value
pushHistoryKeep(hist, v, cap) ==
    IF Len(hist) >= cap THEN hist ELSE Append(hist, v)

\* history.push(v); if (history.length > cap) history.shift()
pushHistory(hist, v, cap) ==
    LET p == Append(hist, v) IN IF Len(p) > cap THEN Tail(p) ELSE p

\* the warm-up check left out
historyFillingNever(hist) == FALSE

\* if (this.kickHistory.length < this.HISTORY_SIZE) { ...; return; }
historyFilling(hist) == Len(hist) < HISTORY_SIZE

\* the refractory check left out
isTimingReadyAlways(t, last, interval) == TRUE

\* a refractory interval half as long
isTimingReadyHalf(t, last, interval) == 2 * (t - last) > interval

\* timeSinceLastBeat > MIN_BEAT_INTERVAL
isTimingReady(t, last, interval) == t - last > interval

\* the beat stamped with its detection time, without the lookahead
beatTimeNow(t) == t

\* const beatTime = now + this.LOOKAHEAD_MS
beatTime(t) == t + LOOKAHEAD_MS

\* unshift() in place of push(): the new beat goes to the head
pushBeatFront(s, t) ==
    [s EXCEPT !.beatBuffer = <<beatTime(t)>> \o @,
              !.lastBeatTime = t,
              !.enqueued = Append(@, [d |-> t, beat |-> beatTime(t),
                                      tick |-> s.ticks, calls |-> s.calls])]

\* beatBuffer.push(beatTime); lastBeatTime = now
pushBeat(s, t) ==
    [s EXCEPT !.beatBuffer = Append(@, beatTime(t)),
              !.lastBeatTime = t,
              !.enqueued = Append(@, [d |-> t, beat |-> beatTime(t),
                                      tick |-> s.ticks, calls |-> s.calls])]

\* a tick that reads a snapshot, in the history variables
countTick(s, data) ==
    [s EXCEPT !.ticks = @ + 1,
              !.loud = IF data = Silence THEN @ ELSE @ + 1]

\* the threshold without its floor: kickImpulse > avgImpulse * THRESHOLD_MULTIPLIER
isAboveMean(kickImpulse, hist) ==
    RatGt(kickImpulse, RatMul(RatDivInt(RatSum(hist), Len(hist)), THRESHOLD_MULTIPLIER))

\* kickImpulse > dynamicThreshold
isAboveThreshold(kickImpulse, hist) ==
    LET avgImpulse == RatDivInt(RatSum(hist), Len(hist))
        dynamicThreshold == RatMax(MIN_KICK_THRESHOLD,
                                   RatMul(avgImpulse, THRESHOLD_MULTIPLIER))
    IN  RatGt(kickImpulse, dynamicThreshold)

\* the dominance check left out
isKickDominantAlways(kickImpulse, bassImpulse) == TRUE

\* kickImpulse > (bassImpulse * 1.1)
isKickDominant(kickImpulse, bassImpulse) ==
    RatGt(kickImpulse, RatMul(bassImpulse, DOMINANCE_FACTOR))

\* BeatDetector.detectBeats, impulse variant, called at clock value t with
\* getByteFrequencyData delivering data
detectBeatsImpulse(s, data, t) ==
    IF ~s.analyser \/ ~s.dataArray THEN requestDetect(s)
    ELSE
    LET kickEnergy == getFrequencyRangeEnergy(s.analyser, s.dataArray, data,
                                              KICK_MIN_HZ, KICK_MAX_HZ)
        bassEnergy == getFrequencyRangeEnergy(s.analyser, s.dataArray, data,
                                              BASS_MIN_HZ, BASS_MAX_HZ)
        kickImpulse == RatMax(Zero, RatSub(kickEnergy, s.prevKickEnergy))
        bassImpulse == RatMax(Zero, RatSub(bassEnergy, s.prevBassEnergy))
        hist == pushHistory(s.kickHistory, kickImpulse, HISTORY_SIZE)
        s1 == [countTick(s, data) EXCEPT !.prevKickEnergy = kickEnergy,
                                         !.prevBassEnergy = bassEnergy,
                                         !.kickHistory = hist]
    IN  IF historyFilling(hist) THEN requestDetect(s1)
        ELSE IF /\ isAboveThreshold(kickImpulse, hist)
                /\ isKickDominant(kickImpulse, bassImpulse)
                /\ isTimingReady(t, s.lastBeatTime, MIN_BEAT_INTERVAL)
             THEN requestDetect(pushBeat(s1, t))
             ELSE requestDetect(s1)

\* the offset never lowered
adaptiveThresholdFixed(hist) == BASS_THRESHOLD

\* variance > 0.0005 ? BASS_THRESHOLD * 0.9 : BASS_THRESHOLD
adaptiveThreshold(hist) ==
    LET avgEnergy == RatDivInt(RatSum(hist), Len(hist))
        sq == [i \in DOMAIN hist |->
                  RatMul(RatSub(hist[i], avgEnergy), RatSub(hist[i], avgEnergy))]
        variance == RatDivInt(RatSum(sq), Len(hist))
    IN  IF RatGt(variance, VARIANCE_TOLERANCE)
        THEN RatMul(BASS_THRESHOLD, Rat(9, 10))
        ELSE BASS_THRESHOLD

\* combined > avgEnergy * (1 + adaptiveThreshold)
isAboveAverage(combined, hist) ==
    LET avgEnergy == RatDivInt(RatSum(hist), Len(hist))
    IN  RatGt(combined, RatMul(avgEnergy, RatAdd(One, adaptiveThreshold(hist))))

\* BeatDetector.detectBeats, energy/flux variant
detectBeatsFlux(s, data, t) ==
    IF ~s.analyser \/ ~s.dataArray THEN s
    ELSE
    LET lowEnergy == calculateBassEnergy(s.analyser, s.audioContext, data)
        f == calculateSpectralFlux(s.prevFreqData, s.analyser, s.audioContext, data)
        combined == RatAdd(RatMul(SPECTRAL_FLUX_WEIGHT, f.value),
                           RatMul(RatSub(One, SPECTRAL_FLUX_WEIGHT), lowEnergy))
        hist == pushHistory(s.energyHistory, combined, ENERGY_HISTORY_SIZE)
        s1 == [countTick(s, data) EXCEPT !.prevFreqData = f.prev,
                                         !.energyHistory = hist]
    IN  IF /\ isAboveAverage(combined, hist)
           /\ isTimingReady(t, s.lastBeatTime, FluxMIN_BEAT_INTERVAL)
        THEN requestDetect(pushBeat(s1, t))
        ELSE requestDetect(s1)

detectBeats(s, data, t) ==
    IF variant = "impulse" THEN detectBeatsImpulse(s, data, t)
    ELSE detectBeatsFlux(s, data, t)

\* the tick reads a snapshot
readsSnapshot(s) == s.analyser /\ s.dataArray

\* the tick fills the impulse history without reaching a decision
fillsHistory(s) == variant = "impulse" /\ Len(s.kickHistory) + 1 < HISTORY_SIZE

TickLimit == IF variant = "impulse" THEN MaxTicks ELSE MaxFluxTicks

\* The snapshots a tick may read in Spec: any snapshot on a deciding tick,
\* silence while the impulse history fills (SpecSignal covers a warm-up with
\* sound).  An analyser without a source delivers zeros.  A tick that reads
\* nothing is given Silence.
InputOk(s, data) ==
    IF readsSnapshot(s)
    THEN /\ s.ticks < TickLimit
         /\ data \in PlainSnapshots
         /\ data # Silence => s.connected /\ s.loud < MaxLoud /\ ~fillsHistory(s)
    ELSE data = Silence

\* The snapshots a tick may read in SpecSignal: any snapshot on any tick
SignalInputOk(s, data) ==
    IF readsSnapshot(s)
    THEN /\ s.ticks < TickLimit
         /\ data # Silence => s.connected /\ s.loud < MaxSignalLoud
    ELSE data = Silence

\* The snapshots a tick may read in SpecFlux: silence, a low tone or full
\* scale, on any tick
FluxInputOk(s, data) ==
    IF readsSnapshot(s)
    THEN /\ s.ticks < TickLimit
         /\ data \in FluxSnapshots
         /\ data # Silence => s.connected
    ELSE data = Silence

\* The snapshots a tick may read in SpecLong: silence, and a kick on one
\* tick, any of them
LongInputOk(s, data) ==
    IF readsSnapshot(s)
    THEN /\ s.ticks < MaxLongTicks
         /\ data \in PlainSnapshots
         /\ data # Silence => s.connected /\ s.loud = 0
    ELSE data = Silence

\* the snapshots a tick may read: free in SpecSignal, plain in Spec
Admits(free, s, data) ==
    IF free THEN SignalInputOk(s, data) ELSE InputOk(s, data)

----------------------------------------------------------------------------
(* The drain step                                                          *)

\* the head is taken to be due whatever its timestamp
headDueAlways(buf, t) == TRUE

\* a beat is due only after its timestamp has passed
headDueStrict(buf, t) == buf[1] < t

\* this.beatBuffer[0] <= now
headDue(buf, t) == buf[1] <= t

\* pop() in place of shift(): the newest beat is removed
shiftLast(buf) == [rest |-> SubSeq(buf, 1, Len(buf) - 1), removed |-> buf[Len(buf)]]

\* two entries leave the buffer for one that is reported
shiftTwo(buf) ==
    [rest |-> IF Len(buf) > 1 THEN Tail(Tail(buf)) ELSE Tail(buf), removed |-> Head(buf)]

\* Array.prototype.shift: the rest and the element removed
shift(buf) == [rest |-> Tail(buf), removed |-> Head(buf)]

\* the callback flashes whatever the flag says
onBeatCallbackAlways(s, beat, t) ==
    [s EXCEPT !.flashes = Append(@, [beat |-> beat, at |-> t])]

\* the callback setup() gives the detector:
\* if (isEnabled && immersiveEffects) immersiveEffects.flash()
onBeatCallback(s, beat, t) ==
    IF s.isEnabled THEN [s EXCEPT !.flashes = Append(@, [beat |-> beat, at |-> t])]
    ELSE s

\* the while loop of processBeats; the callback is invoked once per pass
RECURSIVE drain(_, _)
drain(s, t) ==
    IF Len(s.beatBuffer) > 0 /\ headDue(s.beatBuffer, t)
    THEN LET r == shift(s.beatBuffer)
             s1 == [s EXCEPT !.beatBuffer = r.rest,
                             !.delivered = Append(@, [beat |-> r.removed, at |-> t,
                                                      stale |-> r.removed \in s.stale,
                                                      queued |-> Len(s.beatBuffer)])]
         IN  drain(onBeatCallback(s1, r.removed, t), t)
    ELSE s

\* BeatDetector.processBeats
processBeats(s, t) == requestProcess(drain(s, t))

----------------------------------------------------------------------------
(* Public methods of BeatDetector                                          *)

\* init() up to its first await: the call is in flight since clock value t;
\* cont is what runs when it resolves ("none", "detect" for start()'s
\* auto-recover path, "setup" for the rest of the plugin's setup); polls
\* counts the passes of the loop of waitForCiderAudio, absent those of them
\* that found no CiderAudio.context (a history value)
callInit(s, cont, t) ==
    [s EXCEPT !.inits = Append(@, [then |-> cont, since |-> t, polls |-> 0, absent |-> 0])]

\* BeatDetector.start
start(s, data, t) ==
    IF variant = "impulse"
    THEN IF s.rafId # NULL THEN s
         ELSE IF ~s.analyser \/ ~s.dataArray THEN callInit(s, "detect", t)
         ELSE processBeats(detectBeats(s, data, t), t)
    ELSE IF ~s.analyser \/ ~s.dataArray THEN s
         ELSE processBeats(detectBeats(s, data, t), t)

\* BeatDetector.stop
stop(s) ==
    IF s.rafId # NULL
    THEN [cancelAnimationFrame(s, s.rafId) EXCEPT !.rafId = NULL]
    ELSE s

\* BeatDetector.cleanup
cleanup(s) ==
    [stop(s) EXCEPT !.analyser = FALSE, !.audioContext = FALSE, !.connected = FALSE]

\* what waitForCiderAudio and the audio graph offer an init() call
InitOutcomes == {"noCider", "noSource", "ok"}

\* init() from the return of waitForCiderAudio to its own return.  The
\* analyser is a new node, connected only if a source node is found.  The
\* flux variant creates both arrays before it looks for a source node; the
\* impulse variant creates the data array after connecting.
initBody(s, outcome) ==
    IF outcome = "noCider" THEN s
    ELSE IF variant = "impulse"
         THEN [s EXCEPT !.audioContext = TRUE, !.analyser = TRUE,
                        !.connected = outcome = "ok",
                        !.dataArray = IF outcome = "ok" THEN TRUE ELSE @]
         ELSE [s EXCEPT !.audioContext = TRUE, !.analyser = TRUE,
                        !.connected = outcome = "ok",
                        !.dataArray = TRUE, !.prevFreqData = ZeroArray]

\* the history variables of a call of stop()
noteStop(s) ==
    [s EXCEPT !.stopped = TRUE, !.stale = @ \cup Range(s.beatBuffer),
              !.calls = @ + 1]

\* the history variables of a call of start()
noteStart(s) ==
    [s EXCEPT !.stopped = FALSE, !.calls = @ + 1]

----------------------------------------------------------------------------
(* The plugin: setup(), its playback listener and provide.toggleBeatSync   *)

\* startDetection: if (!isEnabled && beatDetector) { isEnabled = true; start() }
startDetection(s, data, t) ==
    IF ~s.isEnabled THEN start(noteStart([s EXCEPT !.isEnabled = TRUE]), data, t)
    ELSE s

\* stopDetection: if (isEnabled && beatDetector) { isEnabled = false; stop() }
stopDetection(s) ==
    IF s.isEnabled THEN stop(noteStop([s EXCEPT !.isEnabled = FALSE]))
    ELSE s

\* provide.toggleBeatSync
toggleBeatSync(s) == [s EXCEPT !.isEnabled = ~@]

\* what runs when init() has returned ok to the continuation cont: the rest
\* of start()'s auto-recover path, or the rest of setup(), which calls
\* startDetection(), registers the playback listener (MusicKit is there) and
\* calls startDetection() once more if music is playing already
resume(s, cont, ok, data, t) ==
    IF ~ok THEN s
    ELSE IF cont = "detect" THEN detectBeats(s, data, t)
    ELSE IF cont = "setup" THEN [startDetection(s, data, t) EXCEPT !.listening = TRUE]
    ELSE s

----------------------------------------------------------------------------
(* ImmersiveEffects: finding the element, the watchers, the flash          *)

RETRY_INTERVAL_MS == 2000
MAX_RETRY_INTERVAL_MS == 5000
RETRY_STEP_MS == 1000
FLASH_IN_MS == 50
FLASH_OUT_MS == 150

NoElement == 0
Elements == 1..MaxElements

\* el.style.backdropFilter during a flash
Bright == "brightness(1.08) saturate(1.1)"
\* el.style.transition on the way in and on the way out
TransitionIn == "50ms ease-out"
TransitionOut == "150ms ease-out"

\* el.style as the page sets it: the elements differ
HostStyle(el) ==
    [backdropFilter |-> IF el = 1 THEN "blur(40px)" ELSE "",
     filter |-> IF el = 1 THEN "" ELSE "contrast(1.1)",
     transition |-> ""]

\* the fields of ImmersiveEffects, as one record
Effects ==
    [immersiveElement |-> immersiveElement, isFlashing |-> isFlashing,
     observer |-> observer, retryTimer |-> retryTimer,
     retryIntervalMs |-> retryIntervalMs, timers |-> timers, style |-> style,
     retries |-> retries]

Apply(e) ==
    /\ immersiveElement' = e.immersiveElement
    /\ isFlashing' = e.isFlashing
    /\ observer' = e.observer
    /\ retryTimer' = e.retryTimer
    /\ retryIntervalMs' = e.retryIntervalMs
    /\ timers' = e.timers
    /\ style' = e.style
    /\ retries' = e.retries

\* Timer handles are only compared for equality (clearTimeout) and tested for
\* truthiness: the least positive handle that no pending timer has and that
\* retryTimer does not hold
FreshTimer(e) ==
    LET used == {tm.id : tm \in e.timers} \cup {e.retryTimer}
    IN  CHOOSE i \in 1..(Cardinality(used) + 1) : i \notin used

\* window.setTimeout(fn, delay); the callbacks of flash() capture el and the
\* two original values
setTimeout(e, id, fn, delay, el, originalBackdropFilter, originalFilter) ==
    [e EXCEPT !.timers = @ \cup {[id |-> id, fn |-> fn, delay |-> delay, el |-> el,
                                  originalBackdropFilter |-> originalBackdropFilter,
                                  originalFilter |-> originalFilter]}]

clearTimeout(e, id) == [e EXCEPT !.timers = {tm \in @ : tm.id # id}]

\* ImmersiveEffects.cleanupWatcher
cleanupWatcher(e) ==
    LET e1 == [e EXCEPT !.observer = FALSE]
        e2 == IF e1.retryTimer # NULL
              THEN [clearTimeout(e1, e1.retryTimer) EXCEPT !.retryTimer = NULL]
              ELSE e1
    IN  [e2 EXCEPT !.retryIntervalMs = RETRY_INTERVAL_MS]

\* ImmersiveEffects.tryFindNow: found is what document.querySelector returns
\* for the first selector that matches, NoElement if none does; the method
\* returns found # NoElement
tryFindNow(e, found) ==
    IF found # NoElement
    THEN cleanupWatcher([e EXCEPT !.immersiveElement = found, !.retries = 0])
    ELSE e

\* ImmersiveEffects.ensureObserver (document.body is there)
ensureObserver(e) ==
    IF e.observer THEN e ELSE [e EXCEPT !.observer = TRUE]

\* ImmersiveEffects.scheduleRetry
scheduleRetry(e) ==
    LET e1 == IF e.retryTimer # NULL THEN clearTimeout(e, e.retryTimer) ELSE e
        id == FreshTimer(e1)
    IN  [setTimeout(e1, id, "retry", e1.retryIntervalMs, NoElement, "", "")
            EXCEPT !.retryTimer = id]

\* the interval grows without a cap
nextIntervalUncapped(ms) == ms + RETRY_STEP_MS

\* Math.min(this.retryIntervalMs + 1000, this.MAX_RETRY_INTERVAL_MS)
nextInterval(ms) == Min(ms + RETRY_STEP_MS, MAX_RETRY_INTERVAL_MS)

\* the callback of the retry timer
retryCallback(e, found) ==
    LET e1 == [e EXCEPT !.retryTimer = NULL]
    IN  IF found # NoElement THEN tryFindNow(e1, found)
        ELSE scheduleRetry([e1 EXCEPT !.retryIntervalMs = nextInterval(@),
                                      !.retries = @ + 1])

\* ImmersiveEffects.init
effectsInit(e, found) ==
    IF found # NoElement THEN tryFindNow(e, found)
    ELSE ensureObserver(scheduleRetry(e))

\* ImmersiveEffects.startWatching: the MusicKit handler it registers calls
\* tryFindNow() when music plays
startWatching(e) == ensureObserver(e)

\* a flash starts although one is in progress
canFlashAlways(e) == e.immersiveElement # NoElement

\* !(!this.immersiveElement || this.isFlashing)
canFlash(e) == e.immersiveElement # NoElement /\ ~e.isFlashing

\* ImmersiveEffects.flash
flash(e) ==
    IF ~canFlash(e) THEN e
    ELSE LET el == e.immersiveElement
             e1 == [e EXCEPT !.isFlashing = TRUE,
                             !.style[el].transition = TransitionIn,
                             !.style[el].backdropFilter = Bright]
         IN  setTimeout(e1, FreshTimer(e1), "restore", FLASH_IN_MS, el,
                        e.style[el].backdropFilter, e.style[el].filter)

\* the flash never ends: the second timer is not set
restoreCallbackOnly(e, tm) ==
    [e EXCEPT !.style[tm.el].transition = TransitionOut,
              !.style[tm.el].backdropFilter = tm.originalBackdropFilter,
              !.style[tm.el].filter = tm.originalFilter]

\* the callback of the 50 ms timer of flash()
restoreCallback(e, tm) ==
    LET e1 == [e EXCEPT !.style[tm.el].transition = TransitionOut,
                        !.style[tm.el].backdropFilter = tm.originalBackdropFilter,
                        !.style[tm.el].filter = tm.originalFilter]
    IN  setTimeout(e1, FreshTimer(e1), "finish", FLASH_OUT_MS, tm.el, "", "")

\* the callback of the 150 ms timer
finishCallback(e, tm) ==
    [e EXCEPT !.style[tm.el].transition = "", !.isFlashing = FALSE]

----------------------------------------------------------------------------
(* Actions                                                                 *)

\* no band-energy call followed yet
NoProbe == [prev |-> <<>>, data |-> <<>>, minHz |-> 0, maxHz |-> 0, ready |-> FALSE,
            prevEnergy |-> Zero, energy |-> Zero, flux |-> Zero, called |-> FALSE]

Idle == curFrame = <<>>
Room(k) == Len(pending) + k <= MaxCallbacks

Init ==
    /\ variant \in {"impulse", "flux"}
    /\ audioContext = FALSE
    /\ analyser = FALSE
    /\ dataArray = FALSE
    /\ connected = FALSE
    /\ rafId = NULL
    /\ lastBeatTime = 0
    /\ kickHistory = <<>>
    /\ prevKickEnergy = Zero
    /\ prevBassEnergy = Zero
    /\ energyHistory = <<>>
    /\ prevFreqData = NoArray
    /\ beatBuffer = <<>>
    /\ inits = <<>>
    /\ pending = <<>>
    /\ curFrame = <<>>
    /\ now = 0
    /\ ticks = 0
    /\ loud = 0
    /\ calls = 0
    /\ enqueued = <<>>
    /\ delivered = <<>>
    /\ stopped = FALSE
    /\ stale = {}
    /\ isEnabled = FALSE
    /\ listening = FALSE
    /\ flashes = <<>>
    /\ probe = NoProbe
    /\ immersiveElement = NoElement
    /\ isFlashing = FALSE
    /\ observer = FALSE
    /\ retryTimer = NULL
    /\ retryIntervalMs = RETRY_INTERVAL_MS
    /\ timers = {}
    /\ style = [el \in Elements |-> HostStyle(el)]
    /\ dom = NoElement
    /\ retries = 0

\* someone calls detector.init()
CallInit ==
    /\ Idle
    /\ calls < MaxCalls
    /\ Len(inits) < MaxInits
    /\ Commit([callInit(Self, "none", now) EXCEPT !.calls = @ + 1])
    /\ UNCHANGED <<variant, now>>

\* a pending init() resolves, in the specifications that do not follow the
\* single polls: with the context found, not before the first poll; without
\* it, not before the last one.  On success the continuation runs.
ResolveWith(free) ==
    /\ Idle
    /\ \E i \in DOMAIN inits, outcome \in InitOutcomes, data \in Snapshots :
          /\ now - inits[i].since >=
                 (IF outcome = "noCider" THEN MAX_POLLS ELSE 1) * POLL_MS
          /\ LET s1 == initBody([Self EXCEPT !.inits = SubSeq(inits, 1, i - 1)
                                             \o SubSeq(inits, i + 1, Len(inits))],
                             outcome)
                 ok == outcome = "ok"
                 runs == inits[i].then # "none" /\ ok
             IN  /\ IF runs
                    THEN /\ Room(IF inits[i].then = "detect" THEN 1 ELSE 2)
                         /\ Admits(free, s1, data)
                    ELSE data = Silence
                 /\ Commit(resume(s1, inits[i].then, ok, data, now))
    /\ UNCHANGED <<variant, now>>

StartWith(free) ==
    /\ Idle
    /\ calls < MaxCalls
    /\ Room(2)
    /\ Len(inits) < MaxInits
    /\ \E data \in Snapshots :
          /\ Admits(free, Self, data)
          /\ Commit(start(noteStart(Self), data, now))
    /\ UNCHANGED <<variant, now>>

\* the frame runs a detectBeats callback
DetectWith(free) ==
    /\ curFrame # <<>>
    /\ Head(curFrame).fn = "detect"
    /\ \E data \in Snapshots :
          /\ Admits(free, Self, data)
          /\ Commit(detectBeats([Self EXCEPT !.frame = Tail(curFrame)], data, now))
    /\ UNCHANGED <<variant, now>>

InitResolve == ResolveWith(FALSE)
Start == StartWith(FALSE)
RunDetect == DetectWith(FALSE)

Stop ==
    /\ Idle
    /\ calls < MaxCalls
    /\ Commit(stop(noteStop(Self)))
    /\ UNCHANGED <<variant, now>>

Cleanup ==
    /\ Idle
    /\ calls < MaxCalls
    /\ Commit(cleanup(noteStop(Self)))
    /\ UNCHANGED <<variant, now>>

\* the browser starts an animation frame
BeginFrame ==
    /\ Idle
    /\ pending # <<>>
    /\ Commit([Self EXCEPT !.frame = pending, !.pending = <<>>])
    /\ UNCHANGED <<variant, now>>

\* the frame runs a processBeats callback
RunProcess ==
    /\ curFrame # <<>>
    /\ Head(curFrame).fn = "process"
    /\ Commit(processBeats([Self EXCEPT !.frame = Tail(curFrame)], now))
    /\ UNCHANGED <<variant, now>>

\* time passes
AdvanceClock ==
    /\ Idle
    /\ now < MaxClock
    /\ now' = now + ClockStep
    /\ UNCHANGED <<variant, dvars>>

\* The detector under any order of calls of its public methods
Next ==
    \/ CallInit
    \/ InitResolve
    \/ Start
    \/ Stop
    \/ Cleanup
    \/ BeginFrame
    \/ RunDetect
    \/ RunProcess
    \/ AdvanceClock

Spec == Init /\ [][Next]_vars

----------------------------------------------------------------------------
(* One session: init(), then start() once the analyser is there, then      *)
(* frames, with any snapshot on any tick                                   *)

SignalInit ==
    /\ inits = <<>>
    /\ ~analyser
    /\ CallInit

SignalReady == ResolveWith(TRUE)

SignalStart ==
    /\ pending = <<>>
    /\ readsSnapshot(Self)
    /\ StartWith(TRUE)

SignalDetect == DetectWith(TRUE)

NextSignal ==
    \/ SignalInit
    \/ SignalReady
    \/ SignalStart
    \/ BeginFrame
    \/ SignalDetect
    \/ RunProcess
    \/ AdvanceClock

SpecSignal == Init /\ [][NextSignal]_vars

----------------------------------------------------------------------------
(* One session of the energy/flux variant over a low tone that rises and   *)
(* falls, where the adaptive offset decides                                *)

FluxStart ==
    /\ variant = "flux"
    /\ Idle
    /\ pending = <<>>
    /\ readsSnapshot(Self)
    /\ calls < MaxCalls
    /\ Room(2)
    /\ \E data \in FluxSnapshots :
          /\ FluxInputOk(Self, data)
          /\ Commit(start(noteStart(Self), data, now))
    /\ UNCHANGED <<variant, now>>

FluxDetect ==
    /\ variant = "flux"
    /\ curFrame # <<>>
    /\ Head(curFrame).fn = "detect"
    /\ \E data \in FluxSnapshots :
          /\ FluxInputOk(Self, data)
          /\ Commit(detectBeats([Self EXCEPT !.frame = Tail(curFrame)], data, now))
    /\ UNCHANGED <<variant, now>>

NextFlux ==
    \/ SignalInit
    \/ SignalReady
    \/ FluxStart
    \/ BeginFrame
    \/ FluxDetect
    \/ RunProcess
    \/ AdvanceClock

SpecFlux == Init /\ [][NextFlux]_vars

----------------------------------------------------------------------------
(* One long session: more ticks than the history of either variant holds,  *)
(* over silence with a kick somewhere                                      *)

LongStart ==
    /\ Idle
    /\ pending = <<>>
    /\ readsSnapshot(Self)
    /\ calls < MaxCalls
    /\ Room(2)
    /\ \E data \in PlainSnapshots :
          /\ LongInputOk(Self, data)
          /\ Commit(start(noteStart(Self), data, now))
    /\ UNCHANGED <<variant, now>>

LongDetect ==
    /\ curFrame # <<>>
    /\ Head(curFrame).fn = "detect"
    /\ \E data \in PlainSnapshots :
          /\ LongInputOk(Self, data)
          /\ Commit(detectBeats([Self EXCEPT !.frame = Tail(curFrame)], data, now))
    /\ UNCHANGED <<variant, now>>

NextLong ==
    \/ SignalInit
    \/ SignalReady
    \/ LongStart
    \/ BeginFrame
    \/ LongDetect
    \/ RunProcess
    \/ AdvanceClock

SpecLong == Init /\ [][NextLong]_vars

----------------------------------------------------------------------------
(* Teardown: init(), start() calls, then one cleanup() while loops may     *)
(* still be registered; no stop().  The order is fixed, so one call and    *)
(* one init() in flight more than in Spec are affordable.                  *)

TeardownStart ==
    /\ Idle
    /\ ~stopped
    /\ calls < MaxCalls + 1
    /\ Room(2)
    /\ Len(inits) < MaxInits + 1
    /\ \E data \in Snapshots :
          /\ InputOk(Self, data)
          /\ Commit(start(noteStart(Self), data, now))
    /\ UNCHANGED <<variant, now>>

TeardownCleanup ==
    /\ Idle
    /\ ~stopped
    /\ calls < MaxCalls + 1
    /\ Commit(cleanup(noteStop(Self)))
    /\ UNCHANGED <<variant, now>>

NextTeardown ==
    \/ SignalInit
    \/ InitResolve
    \/ TeardownStart
    \/ TeardownCleanup
    \/ BeginFrame
    \/ RunDetect
    \/ RunProcess
    \/ AdvanceClock

SpecTeardown == Init /\ [][NextTeardown]_vars

----------------------------------------------------------------------------
(* Initialisation poll by poll: setup() awaits init(), whose                *)
(* waitForCiderAudio sleeps POLL_MS and looks for CiderAudio.context, up to *)
(* MAX_POLLS times; setup() goes on to startDetection() if init() returned  *)
(* true.  What a poll finds is an input of the poll.                        *)

\* the loop runs without a bound
pollsLeftAlways(k) == TRUE

\* for (let i = 0; i < 75; i++): the loop goes on after k passes
pollsLeft(k) == k < MAX_POLLS

\* setup() calls beatDetector.init() and awaits it
SetupInit ==
    /\ Idle
    /\ calls = 0
    /\ inits = <<>>
    /\ Commit([callInit(Self, "setup", now) EXCEPT !.calls = @ + 1])
    /\ UNCHANGED <<variant, now>>

\* the timer of a pending init() fires: one pass of the loop of
\* waitForCiderAudio and, when the loop ends, the rest of init() and of the
\* code awaiting it
Poll ==
    /\ Idle
    /\ \E i \in DOMAIN inits :
          LET p == inits[i]
              again == [p EXCEPT !.polls = @ + 1, !.absent = @ + 1]
              others == SubSeq(inits, 1, i - 1) \o SubSeq(inits, i + 1, Len(inits))
              s0 == [Self EXCEPT !.inits = others]
          IN  /\ now - p.since >= POLL_MS * (p.polls + 1)
              /\ \/ /\ pollsLeft(again.polls)
                    /\ Commit([Self EXCEPT !.inits = [inits EXCEPT ![i] = again]])
                 \/ /\ ~pollsLeft(again.polls)
                    /\ Commit(resume(initBody(s0, "noCider"), p.then, FALSE, Silence, now))
                 \/ \E seen \in InitOutcomes \ {"noCider"}, data \in Snapshots :
                       LET s1 == initBody(s0, seen)
                           ok == seen = "ok"
                       IN  /\ IF ok /\ p.then # "none"
                              THEN Room(2) /\ InputOk(s1, data)
                              ELSE data = Silence
                           /\ Commit(resume(s1, p.then, ok, data, now))
    /\ UNCHANGED <<variant, now>>

\* time passes until the next timer is due
PollWait ==
    /\ Idle
    /\ inits # <<>>
    /\ \A i \in DOMAIN inits : now - inits[i].since < POLL_MS * (inits[i].polls + 1)
    /\ now' = now + POLL_MS
    /\ UNCHANGED <<variant, dvars>>

NextInit ==
    \/ SetupInit
    \/ Poll
    \/ PollWait

\* timers that are due do fire
SpecInit == Init /\ [][NextInit]_vars /\ WF_vars(Poll) /\ WF_vars(PollWait)

----------------------------------------------------------------------------
(* The plugin in its host: setup(), then playback events and               *)
(* toggleBeatSync() calls in any order, and frames.  The detector is       *)
(* called by the plugin only, which may make one call more than the       *)
(* callers of Spec (setup's init() is one of them).                        *)

\* a playbackStateDidChange event reaches the listener
PlaybackChange ==
    /\ Idle
    /\ listening
    /\ calls < MaxCalls + 1
    /\ Room(2)
    /\ \E playing \in BOOLEAN, data \in Snapshots :
          IF playing
          THEN /\ InputOk(Self, data)
               /\ Commit(startDetection(Self, data, now))
          ELSE /\ data = Silence
               /\ Commit(stopDetection(Self))
    /\ UNCHANGED <<variant, now>>

\* someone calls provide.toggleBeatSync()
ToggleBeatSync ==
    /\ Idle
    /\ Commit(toggleBeatSync(Self))
    /\ UNCHANGED <<variant, now>>

NextPlugin ==
    \/ SetupInit
    \/ InitResolve
    \/ PlaybackChange
    \/ ToggleBeatSync
    \/ BeginFrame
    \/ RunDetect
    \/ RunProcess
    \/ AdvanceClock

SpecPlugin == Init /\ [][NextPlugin]_vars

----------------------------------------------------------------------------
(* The band-energy functions on their own: two consecutive ticks read the   *)
(* snapshots prev and data, of any content, and compute the energy of one   *)
(* band of each: getFrequencyRangeEnergy(minHz, maxHz) in the impulse       *)
(* variant, calculateBassEnergy in the energy/flux variant, where the       *)
(* second tick also computes the spectral flux from prev to data.  A        *)
(* behaviour follows one such pair of calls.  The arrays have any length    *)
(* from 0.                                                                  *)

\* magnitudes of a Uint8Array element: least, middle, greatest
ProbeLevels == {0, 128, 255}
ProbeSnapshots(len) == [1..len -> ProbeLevels]
\* band edges: the ones the code uses and two more
ProbeHz == {0, KICK_MIN_HZ, 70, KICK_MAX_HZ, BASS_MAX_HZ}
\* calculateBassEnergy has one band, from bin 0 to BASS_MAX_HZ
ProbeMinHz == IF variant = "impulse" THEN ProbeHz ELSE {0}
ProbeMaxHz == IF variant = "impulse" THEN ProbeHz ELSE {FluxBASS_MAX_HZ}

bandEnergy(ready, data, minHz, maxHz) ==
    IF variant = "impulse"
    THEN getFrequencyRangeEnergy(ready, ready, data, minHz, maxHz)
    ELSE calculateBassEnergy(ready, ready, data)

\* the flux the second tick computes; the impulse variant has none
fluxOf(ready, prev, data) ==
    IF variant = "impulse" THEN Zero
    ELSE calculateSpectralFlux(prev, ready, ready, data).value

Measure ==
    /\ probe = NoProbe
    /\ \E len \in 0..MaxProbeLen, ready \in BOOLEAN,
          minHz \in ProbeMinHz, maxHz \in ProbeMaxHz :
          \E a \in ProbeSnapshots(len), b \in ProbeSnapshots(len) :
             probe' = [prev |-> a, data |-> b, minHz |-> minHz, maxHz |-> maxHz,
                       ready |-> ready,
                       prevEnergy |-> bandEnergy(ready, a, minHz, maxHz),
                       energy |-> bandEnergy(ready, b, minHz, maxHz),
                       flux |-> fluxOf(ready, a, b), called |-> TRUE]
    /\ UNCHANGED <<variant, now, audioContext, analyser, dataArray, connected, rafId,
                   lastBeatTime, kickHistory, prevKickEnergy, prevBassEnergy,
                   energyHistory, prevFreqData, beatBuffer, inits, pending, curFrame,
                   ticks, loud, calls, enqueued, delivered, stopped, stale,
                   isEnabled, listening, flashes, evars, dom>>

SpecEnergy == Init /\ [][Measure]_vars

----------------------------------------------------------------------------
(* Delivery: one start() on a detector that was initialised or not, no     *)
(* stop(), and animation frames that keep firing.  The session goes on      *)
(* after the ticks that are counted: silence is read from then on.          *)

\* The snapshots a tick may read in SpecDeliver: silence, and a kick on one
\* of the counted ticks that decide; the ticks after TickLimit are not counted
DeliverInputOk(s, data) ==
    IF readsSnapshot(s)
    THEN data # Silence => /\ s.connected
                           /\ s.loud = 0
                           /\ s.ticks < TickLimit
                           /\ ~fillsHistory(s)
    ELSE data = Silence

\* start(), once
DeliverStart ==
    /\ Idle
    /\ pending = <<>>
    /\ inits = <<>>
    /\ calls < MaxCalls
    /\ \E data \in PlainSnapshots :
          /\ DeliverInputOk(Self, data)
          /\ Commit(start(noteStart(Self), data, now))
    /\ UNCHANGED <<variant, now>>

\* the pending init() resolves and its continuation runs
DeliverResolve ==
    /\ Idle
    /\ inits # <<>>
    /\ now - inits[1].since >= POLL_MS
    /\ \E outcome \in InitOutcomes \ {"noCider"}, data \in PlainSnapshots :
          LET s1 == initBody([Self EXCEPT !.inits = Tail(inits)], outcome)
              ok == outcome = "ok"
          IN  /\ IF inits[1].then # "none" /\ ok
                 THEN DeliverInputOk(s1, data)
                 ELSE data = Silence
              /\ Commit(resume(s1, inits[1].then, ok, data, now))
    /\ UNCHANGED <<variant, now>>

DeliverDetect ==
    /\ curFrame # <<>>
    /\ Head(curFrame).fn = "detect"
    /\ \E data \in PlainSnapshots :
          /\ DeliverInputOk(Self, data)
          /\ Commit([detectBeats([Self EXCEPT !.frame = Tail(curFrame)], data, now)
                        EXCEPT !.ticks = Min(@, TickLimit)])
    /\ UNCHANGED <<variant, now>>

NextDeliver ==
    \/ SignalInit
    \/ DeliverResolve
    \/ DeliverStart
    \/ BeginFrame
    \/ DeliverDetect
    \/ RunProcess
    \/ AdvanceClock

\* a detectBeats callback is next in the running frame: DeliverDetect is
\* enabled, since silence can always be read
DetectDue == curFrame # <<>> /\ Head(curFrame).fn = "detect"

\* The browser keeps starting frames and runs the callbacks of a frame, and
\* the clock goes on: weak fairness of the four steps, the one of
\* DeliverDetect written out with DetectDue for ENABLED <<DeliverDetect>>_vars
SpecDeliver ==
    /\ Init
    /\ [][NextDeliver]_vars
    /\ WF_vars(BeginFrame)
    /\ ([]<>(~DetectDue) \/ []<><<DeliverDetect>>_vars)
    /\ WF_vars(RunProcess)
    /\ WF_vars(AdvanceClock)

----------------------------------------------------------------------------
(* ImmersiveEffects in its page: init(), startWatching() and tryFindNow()   *)
(* calls, flash() calls from the beat callback, timers and changes of the   *)
(* page, in any order                                                       *)

\* immersiveEffects.init()
EffectsInit ==
    /\ Apply(effectsInit(Effects, dom))
    /\ UNCHANGED <<variant, now, bvars, dom>>

\* immersiveEffects.startWatching(MusicKit)
StartWatching ==
    /\ Apply(startWatching(Effects))
    /\ UNCHANGED <<variant, now, bvars, dom>>

\* tryFindNow() from a playback handler
TryFindNow ==
    /\ Apply(tryFindNow(Effects, dom))
    /\ UNCHANGED <<variant, now, bvars, dom>>

\* the page changes what the selectors match
DomChange ==
    /\ \E d \in Elements \cup {NoElement} :
          /\ d # dom
          /\ dom' = d
    /\ UNCHANGED <<variant, now, bvars, evars>>

\* the MutationObserver reports a change of the page
Mutation ==
    /\ observer
    /\ Apply(tryFindNow(Effects, dom))
    /\ UNCHANGED <<variant, now, bvars, dom>>

\* the beat callback calls flash()
Flash ==
    /\ Apply(flash(Effects))
    /\ UNCHANGED <<variant, now, bvars, dom>>

FireRetry ==
    /\ \E tm \in timers :
          /\ tm.fn = "retry"
          /\ dom = NoElement => retries < MaxRetries
          /\ Apply(retryCallback([Effects EXCEPT !.timers = @ \ {tm}], dom))
    /\ UNCHANGED <<variant, now, bvars, dom>>

FireRestore ==
    /\ \E tm \in timers :
          /\ tm.fn = "restore"
          /\ Apply(restoreCallback([Effects EXCEPT !.timers = @ \ {tm}], tm))
    /\ UNCHANGED <<variant, now, bvars, dom>>

FireFinish ==
    /\ \E tm \in timers :
          /\ tm.fn = "finish"
          /\ Apply(finishCallback([Effects EXCEPT !.timers = @ \ {tm}], tm))
    /\ UNCHANGED <<variant, now, bvars, dom>>

NextEffects ==
    \/ EffectsInit
    \/ StartWatching
    \/ TryFindNow
    \/ DomChange
    \/ Mutation
    \/ Flash
    \/ FireRetry
    \/ FireRestore
    \/ FireFinish

SpecEffects == Init /\ [][NextEffects]_vars

\* the timers of a flash fire
SpecFlash ==
    /\ Init
    /\ [][NextEffects]_vars
    /\ WF_vars(FireRestore)
    /\ WF_vars(FireFinish)

----------------------------------------------------------------------------
(* Properties                                                              *)

MinInterval == IF variant = "impulse" THEN MIN_BEAT_INTERVAL ELSE FluxMIN_BEAT_INTERVAL

\* C1: refractory law.  In both variants any two consecutively enqueued
\* beats have detection times at least the variant's MIN_BEAT_INTERVAL
\* apart, also across stop()/start() and repeated start() calls.
C1_RefractoryLaw ==
    \A i \in 1..(Len(enqueued) - 1) :
        enqueued[i + 1].d - enqueued[i].d >= MinInterval

\* two beats of the impulse variant, enqueued in different start() sessions
C1_TwoBeats ==
    /\ variant = "impulse"
    /\ Len(enqueued) >= 2
    /\ enqueued[2].calls > enqueued[1].calls

\* C2: lookahead law.  Every callback invocation for a beat detected at d
\* happens in a processBeats step whose clock value is at least
\* d + LOOKAHEAD_MS.
C2_LookaheadLaw ==
    \A i \in DOMAIN delivered :
        /\ \E e \in Range(enqueued) : e.beat = delivered[i].beat
        /\ \A e \in Range(enqueued) :
              e.beat = delivered[i].beat => delivered[i].at >= e.d + LOOKAHEAD_MS

\* a beat was delivered at the very clock value at which it became due
C2_DeliveredOnTime ==
    \E i \in DOMAIN delivered, e \in Range(enqueued) :
        e.beat = delivered[i].beat /\ delivered[i].at = e.d + LOOKAHEAD_MS

\* C3: warm-up suppression, impulse variant.  No beat is pushed before
\* HISTORY_SIZE detectBeats ticks have processed a snapshot, whatever the
\* snapshots and the clock values.
C3_WarmUpImpulse ==
    variant = "impulse" => \A e \in Range(enqueued) : e.tick >= HISTORY_SIZE

\* a tick of the warm-up has just recorded an impulse above the floor, with
\* the refractory interval over, and nothing was enqueued
C3_LoudWarmUpTick ==
    /\ variant = "impulse"
    /\ kickHistory # <<>>
    /\ Len(kickHistory) < HISTORY_SIZE
    /\ RatGt(kickHistory[Len(kickHistory)], MIN_KICK_THRESHOLD)
    /\ now - lastBeatTime > MIN_BEAT_INTERVAL
    /\ enqueued = <<>>

\* C4: warm-up suppression, energy/flux variant.  No beat is pushed during
\* the first ENERGY_HISTORY_SIZE detectBeats ticks.
C4_WarmUpFlux ==
    variant = "flux" => \A e \in Range(enqueued) : e.tick > ENERGY_HISTORY_SIZE

\* C5: FIFO ordering.  The beats delivered to the callback are, in order,
\* the first beats that were pushed onto beatBuffer.
C5_FifoOrder ==
    /\ Len(delivered) <= Len(enqueued)
    /\ \A i \in DOMAIN delivered : delivered[i].beat = enqueued[i].beat

\* a beat was delivered while a later beat was waiting behind it
C5_DeliveredBeforeQueued ==
    /\ delivered # <<>>
    /\ beatBuffer # <<>>
    /\ delivered[Len(delivered)].queued >= 2

\* C6: cancellation.  No beat that was in beatBuffer when stop() was called
\* is delivered to the callback afterwards.
C6_StopDiscards == \A i \in DOMAIN delivered : ~delivered[i].stale

\* C7: after stop() no detectBeats tick reads a snapshot until start() is
\* called again.
C7_NoTickWhileStopped == [][(stopped /\ stopped') => ticks' = ticks]_vars

\* C8: a start() after a stop() begins a fresh session: its first tick
\* leaves a history of that one value, measured against zero previous
\* energies, and an empty beatBuffer.
C8_FreshSession ==
    [][(stopped /\ ~stopped' /\ ticks' # ticks) =>
          /\ Len(kickHistory') + Len(energyHistory') = 1
          /\ variant = "impulse" => kickHistory'[1] = prevKickEnergy'
          /\ beatBuffer' = <<>>]_vars

\* C9: at most one detectBeats animation-frame loop exists at any time.
C9_SingleDetectLoop == NumLoops("detect") <= 1

\* C10: exactly one processBeats loop is active while the detector is
\* running, and the number of drain loops never exceeds one.
C10_SingleDrainLoop ==
    /\ NumLoops("process") <= 1
    /\ rafId # NULL => NumLoops("process") = 1

\* C11: delivery spacing.  Beats reach the callback in non-decreasing
\* timestamp order, and two consecutive callback invocations are more than
\* the refractory interval apart in delivery time (so never in the same
\* processBeats step).
C11_DeliverySpacing ==
    \A i \in 1..(Len(delivered) - 1) :
        /\ delivered[i + 1].beat >= delivered[i].beat
        /\ delivered[i + 1].at - delivered[i].at > MinInterval

\* C12: threshold floor, impulse variant.  A tick whose kick impulse is at
\* most MIN_KICK_THRESHOLD enqueues nothing, whatever the history holds: the
\* kick impulse of a tick that enqueues a beat (the value that tick appended
\* to kickHistory) is above the floor.
C12_FloorImpulse ==
    [][(variant = "impulse" /\ Len(enqueued') > Len(enqueued)) =>
          RatGt(kickHistory'[Len(kickHistory')], MIN_KICK_THRESHOLD)]_vars

\* after the warm-up, over a history that is zero otherwise, a tick recorded
\* an impulse above mean * THRESHOLD_MULTIPLIER and not above the floor, with
\* the refractory interval over, and nothing was enqueued
C12_SoftHitUnderFloor ==
    /\ variant = "impulse"
    /\ Len(kickHistory) = HISTORY_SIZE
    /\ isAboveMean(kickHistory[HISTORY_SIZE], kickHistory)
    /\ ~RatGt(kickHistory[HISTORY_SIZE], MIN_KICK_THRESHOLD)
    /\ now - lastBeatTime > MIN_BEAT_INTERVAL
    /\ enqueued = <<>>

\* C13: threshold floor, energy/flux variant.  Over a near-silent history a
\* fixed floor dominates the history-derived threshold: the combined value of
\* a tick that enqueues a beat (the value that tick appended to
\* energyHistory) is above the floor BASS_THRESHOLD, not merely above
\* mean * (1 + adaptiveThreshold).
C13_FloorFlux ==
    [][(variant = "flux" /\ Len(enqueued') > Len(enqueued)) =>
          RatGt(energyHistory'[Len(energyHistory')], BASS_THRESHOLD)]_vars

\* C14: cold start of the spectral flux.  The first calculateSpectralFlux
\* call after init() returns exactly 0 whatever the snapshot holds, so the
\* first combined value is (1 - SPECTRAL_FLUX_WEIGHT) * lowEnergy of the
\* snapshot read, and that snapshot becomes the baseline prevFreqData.
C14_ColdStartFlux ==
    [][(variant = "flux" /\ ticks = 0 /\ ticks' = 1) =>
          energyHistory'[1] =
              RatMul(RatSub(One, SPECTRAL_FLUX_WEIGHT),
                     calculateBassEnergy(analyser', audioContext', prevFreqData'))]_vars

\* C15: end-to-end scenario, impulse variant.  On a fresh session whose
\* first 30 ticks stayed at or below the floor and enqueued nothing, a tick
\* at clock value T, whatever T is, with a kick impulse above the threshold
\* (and dominant) enqueues exactly one event T + LOOKAHEAD_MS; a drain step
\* at T + LOOKAHEAD_MS then invokes the callback once and empties beatBuffer.
C15_EndToEnd ==
    [][/\ (/\ variant = "impulse"
           /\ enqueued = <<>>
           /\ ticks >= HISTORY_SIZE
           /\ ticks' = ticks + 1
           /\ \A i \in DOMAIN kickHistory : ~RatGt(kickHistory[i], MIN_KICK_THRESHOLD)
           /\ isAboveThreshold(kickHistory'[Len(kickHistory')], kickHistory')
           /\ isKickDominant(kickHistory'[Len(kickHistory')],
                             RatMax(Zero, RatSub(prevBassEnergy', prevBassEnergy))))
          => /\ Len(enqueued') = 1
             /\ enqueued'[1].beat = now + LOOKAHEAD_MS
             /\ beatBuffer' = <<now + LOOKAHEAD_MS>>
       /\ (/\ variant = "impulse"
           /\ Len(enqueued) = 1
           /\ beatBuffer = <<now>>
           /\ curFrame # <<>>
           /\ Head(curFrame).fn = "process"
           /\ curFrame' = Tail(curFrame))
          => /\ Len(delivered') = Len(delivered) + 1
             /\ beatBuffer' = <<>>]_vars

\* the tick of this step met the threshold condition (and dominance, in the
\* impulse variant) at a clock value within the refractory interval
HitInRefractory ==
    /\ ticks' = ticks + 1
    /\ now - lastBeatTime <= MinInterval
    /\ IF variant = "impulse"
       THEN /\ Len(kickHistory') = HISTORY_SIZE
            /\ isAboveThreshold(kickHistory'[Len(kickHistory')], kickHistory')
            /\ isKickDominant(kickHistory'[Len(kickHistory')],
                              RatMax(Zero, RatSub(prevBassEnergy', prevBassEnergy)))
       ELSE isAboveAverage(energyHistory'[Len(energyHistory')], energyHistory')

\* C16: hard debounce.  A tick that meets the threshold (and dominance)
\* conditions within the refractory interval of the last beat enqueues
\* nothing: nothing is appended to beatBuffer and lastBeatTime keeps its
\* value (the window is not extended), while the history and the previous
\* energies are updated as on any tick.
C16_HardDebounce ==
    [][HitInRefractory =>
          /\ enqueued' = enqueued
          /\ lastBeatTime' = lastBeatTime
          /\ \E k \in 0..Len(beatBuffer) :
                beatBuffer' = SubSeq(beatBuffer, k + 1, Len(beatBuffer))
          /\ IF variant = "impulse"
             THEN /\ kickHistory' = pushHistory(kickHistory,
                                                kickHistory'[Len(kickHistory')],
                                                HISTORY_SIZE)
                  /\ kickHistory'[Len(kickHistory')] =
                         RatMax(Zero, RatSub(prevKickEnergy', prevKickEnergy))
             ELSE energyHistory' = pushHistory(energyHistory,
                                               energyHistory'[Len(energyHistory')],
                                               ENERGY_HISTORY_SIZE)]_vars

\* a tick after the last beat, still within its refractory interval, recorded
\* a value that met the threshold condition, and no beat was added
C16_SuppressedHit ==
    /\ enqueued # <<>>
    /\ ticks > enqueued[Len(enqueued)].tick
    /\ lastBeatTime = enqueued[Len(enqueued)].d
    /\ now - lastBeatTime <= MinInterval
    /\ IF variant = "impulse"
       THEN /\ isAboveThreshold(kickHistory[Len(kickHistory)], kickHistory)
            /\ prevBassEnergy = Zero
       ELSE isAboveAverage(energyHistory[Len(energyHistory)], energyHistory)

\* C17: positive decision.  A step in which detectBeats enqueues a beat at
\* clock value now sets lastBeatTime to now and appends exactly one entry,
\* now + LOOKAHEAD_MS, to the tail of beatBuffer; the callback is not invoked
\* for that entry in the same step, and not at all unless the step is a
\* start() call, whose processBeats may deliver older entries.
C17_PositiveDecision ==
    [][Len(enqueued') > Len(enqueued) =>
          /\ Len(enqueued') = Len(enqueued) + 1
          /\ enqueued'[Len(enqueued')].d = now
          /\ enqueued'[Len(enqueued')].beat = now + LOOKAHEAD_MS
          /\ lastBeatTime' = now
          /\ beatBuffer' # <<>>
          /\ beatBuffer'[Len(beatBuffer')] = now + LOOKAHEAD_MS
          /\ \E k \in 0..Len(beatBuffer) :
                SubSeq(beatBuffer', 1, Len(beatBuffer') - 1)
                    = SubSeq(beatBuffer, k + 1, Len(beatBuffer))
          /\ \A i \in (Len(delivered) + 1)..Len(delivered') :
                delivered'[i].beat # now + LOOKAHEAD_MS
          /\ calls' = calls => delivered' = delivered]_vars

\* a beat was pushed at the present clock value and is the only entry left:
\* the drain that ran at this clock value delivered an older beat, not it
C17_PushedNotDelivered ==
    /\ enqueued # <<>>
    /\ enqueued[Len(enqueued)].d = now
    /\ lastBeatTime = now
    /\ beatBuffer = <<now + LOOKAHEAD_MS>>
    /\ delivered # <<>>
    /\ delivered[Len(delivered)].at = now

\* C18: exactly-once consumption.  Every entry pushed onto beatBuffer is
\* either still in it or was removed once with one callback invocation: the
\* beats delivered followed by the beats waiting are the beats pushed, and no
\* beat was delivered twice, however many loops run in a frame.
C18_ExactlyOnce ==
    /\ [i \in 1..Len(delivered) |-> delivered[i].beat] \o beatBuffer
           = [i \in 1..Len(enqueued) |-> enqueued[i].beat]
    /\ \A i, j \in DOMAIN delivered :
           i # j => delivered[i].beat # delivered[j].beat

\* a beat was delivered at the present clock value while two processBeats
\* loops are registered
C18_DeliveredWithTwoLoops ==
    /\ NumLoops("process") >= 2
    /\ delivered # <<>>
    /\ delivered[Len(delivered)].at = now

\* C19: transient read gap.  A detectBeats tick that finds the analyser or
\* the data array absent changes no detector state (history, previous
\* energies, lastBeatTime, beatBuffer) and registers detectBeats for the next
\* frame, in both variants.
C19_ReadGapRetries ==
    [][(/\ curFrame # <<>>
        /\ Head(curFrame).fn = "detect"
        /\ curFrame' = Tail(curFrame)
        /\ ~(analyser /\ dataArray))
       => /\ UNCHANGED <<kickHistory, energyHistory, prevKickEnergy, prevBassEnergy,
                         prevFreqData, lastBeatTime, beatBuffer, ticks>>
          /\ pending' = Append(pending, [id |-> rafId', fn |-> "detect"])]_vars

\* C20: bounded initialisation.  A pending init() has made fewer than
\* MAX_POLLS polls, all of which found no context (it stops at the first
\* poll that finds one); it always returns; it returns before the last poll
\* only with the context found; and when no poll found the context it
\* returns after MAX_POLLS polls without setting up anything, and the
\* session is not started.
C20_BoundedInit ==
    /\ [](\A i \in DOMAIN inits :
             inits[i].polls < MAX_POLLS /\ inits[i].absent = inits[i].polls)
    /\ [][Len(inits') < Len(inits) =>
             /\ inits[1].polls < MAX_POLLS - 1 => audioContext'
             /\ ~audioContext' =>
                   /\ inits[1].polls = MAX_POLLS - 1
                   /\ ~analyser' /\ ~dataArray'
                   /\ pending' = <<>> /\ rafId' = NULL /\ ticks' = 0
                   /\ ~stopped' /\ calls' = calls]_vars
    /\ (inits # <<>>) ~> (inits = <<>>)

\* init() has returned after MAX_POLLS polls that found no context, and
\* nothing was started
C20_GaveUp ==
    /\ calls = 1
    /\ inits = <<>>
    /\ ~audioContext
    /\ now = MAX_POLLS * POLL_MS
    /\ pending = <<>>

\* C21: missing tap point.  An init() that returns false, for want of a
\* source node as for want of CiderAudio, leaves audioContext, analyser and
\* dataArray as they were (unset on a new detector), so that a detectBeats
\* tick reads a snapshot only from an analyser that a successful init() has
\* connected.
C21_MissingTapPoint ==
    /\ [][(Len(inits') < Len(inits) /\ ~connected') =>
             /\ audioContext' = audioContext
             /\ analyser' = analyser
             /\ dataArray' = dataArray]_vars
    /\ [][ticks' > ticks => connected']_vars

\* C22: cleanup.  A cleanup() call leaves no detectBeats callback
\* registered and rafId unset, drops the analyser (with its connection) and
\* the audioContext reference and changes nothing else of the detector; on
\* a detector that has no analyser and no loop (cleaned up already, or never
\* initialised) it changes nothing at all.  A stop() on a detector without
\* analyser is the same step.
C22_Cleanup ==
    [][(calls' = calls + 1 /\ inits' = inits /\ stopped' /\ ~analyser') =>
          /\ NumLoops("detect")' = 0
          /\ rafId' = NULL
          /\ ~audioContext' /\ ~connected'
          /\ UNCHANGED <<dataArray, lastBeatTime, kickHistory, prevKickEnergy,
                         prevBassEnergy, energyHistory, prevFreqData, beatBuffer,
                         ticks, delivered, enqueued>>
          /\ (~analyser /\ rafId = NULL) => UNCHANGED <<pending, curFrame>>]_vars

\* the bins a band-energy call resolves its band to: Math.floor(hz / binWidth),
\* the upper one clamped to the last bin of the snapshot
ProbeMinBin ==
    HzToBin(probe.minHz, DefaultSampleRate,
            IF variant = "impulse" THEN FFT_SIZE ELSE FluxFFT_SIZE)
ProbeTopBin ==
    HzToBin(probe.maxHz, DefaultSampleRate,
            IF variant = "impulse" THEN FFT_SIZE ELSE FluxFFT_SIZE)
ProbeMaxBin == Min(ProbeTopBin, Len(probe.data) - 1)

\* C23: band energy range.  For every snapshot of 8-bit magnitudes and every
\* band, getFrequencyRangeEnergy and calculateBassEnergy return a value in
\* [0, 1], and exactly 0 when minBin >= maxBin after maxBin was clamped to
\* the last bin of the snapshot.
C23_EnergyRange ==
    probe # NoProbe =>
        /\ ~RatGt(Zero, probe.energy)
        /\ ~RatGt(probe.energy, One)
        /\ ProbeMinBin >= ProbeMaxBin => probe.energy = Zero

\* a band that only the clamping made degenerate, on a snapshot at full
\* level, got energy 0
C23_ClampedBand ==
    /\ probe # NoProbe
    /\ probe.ready
    /\ \A i \in DOMAIN probe.data : probe.data[i] = 255
    /\ ProbeMinBin < ProbeTopBin
    /\ ProbeMinBin >= ProbeMaxBin
    /\ probe.energy = Zero

\* C24: band energy monotonicity.  For a fixed band and two snapshots of
\* equal length, if every bin of the second is at least the corresponding bin
\* of the first, the band energy of the second is at least that of the first.
C24_EnergyMonotone ==
    (/\ probe # NoProbe
     /\ \A i \in DOMAIN probe.data : probe.data[i] >= probe.prev[i])
    => ~RatGt(probe.prevEnergy, probe.energy)

\* the second snapshot is nowhere below the first and above it inside the
\* band: the energy rose
C24_EnergyRose ==
    /\ probe # NoProbe
    /\ probe.ready
    /\ \A i \in DOMAIN probe.data : probe.data[i] >= probe.prev[i]
    /\ probe.data # probe.prev
    /\ RatGt(probe.energy, probe.prevEnergy)

\* C25: effect gating.  A step that delivers beats calls flash() for each
\* of them, in order, if isEnabled is true during the delivery, and for none
\* of them if it is false (the beats leave beatBuffer all the same); a step
\* that delivers nothing calls no flash().
C25_EffectGating ==
    [][LET new == SubSeq(delivered', Len(delivered) + 1, Len(delivered'))
       IN  /\ Len(new) = Len(delivered') - Len(delivered)
           /\ flashes' = flashes \o
                  (IF isEnabled'
                   THEN [i \in 1..Len(new) |-> [beat |-> new[i].beat, at |-> new[i].at]]
                   ELSE <<>>)]_vars

\* a beat has just been delivered while isEnabled was false, without a
\* flash, after an earlier one that flashed
C25_SilentDelivery ==
    /\ ~isEnabled
    /\ flashes # <<>>
    /\ Len(delivered) > Len(flashes)
    /\ delivered[Len(delivered)].at = now
    /\ flashes[Len(flashes)].at < now

C27_DecisionFlux ==
    [][(variant = "flux" /\ ticks' = ticks + 1) =>
          LET bass == calculateBassEnergy(TRUE, TRUE, prevFreqData')
              flux == calculateSpectralFlux(prevFreqData, TRUE, TRUE, prevFreqData').value
              combined == RatAdd(RatMul(Rat(3, 10), flux), RatMul(Rat(7, 10), bass))
              n == Len(energyHistory')
              mean == RatDivInt(RatSum(energyHistory'), n)
              variance == RatDivInt(RatSum([i \in 1..n |->
                              RatMul(RatSub(energyHistory'[i], mean),
                                     RatSub(energyHistory'[i], mean))]), n)
              offset == IF RatGt(variance, Rat(5, 10000)) THEN Rat(9, 100) ELSE Rat(10, 100)
          IN  /\ energyHistory'[n] = combined
              /\ Len(enqueued') \in {Len(enqueued), Len(enqueued) + 1}
              /\ Len(enqueued') = Len(enqueued) + 1
                 <=> /\ RatGt(combined, RatMul(mean, RatAdd(One, offset)))
                     /\ now - lastBeatTime > 150]_vars

\* the tick at the present clock value enqueued a beat on a combined value
\* that is above mean * 1.09 and not above mean * 1.10: the variance had
\* lowered the offset
C27_LoweredOffsetDecides ==
    /\ variant = "flux"
    /\ enqueued # <<>>
    /\ enqueued[Len(enqueued)].tick = ticks
    /\ enqueued[Len(enqueued)].d = now
    /\ ~RatGt(energyHistory[Len(energyHistory)],
              RatMul(RatDivInt(RatSum(energyHistory), Len(energyHistory)), Rat(110, 100)))

\* the history of the variant and its capacity
History == IF variant = "impulse" THEN kickHistory ELSE energyHistory
HistoryCap == IF variant = "impulse" THEN HISTORY_SIZE ELSE ENERGY_HISTORY_SIZE

\* C28: rolling history.  After k ticks the history holds min(k, N) values
\* (N = HISTORY_SIZE or ENERGY_HISTORY_SIZE), never more than N; a tick
\* appends its feature value at the end, and if the history held N values
\* already, removes the oldest one and no other; nothing else changes the
\* history.
C28_RollingHistory ==
    /\ [](Len(History) = Min(ticks, HistoryCap))
    /\ [][IF ticks' = ticks + 1
          THEN LET v == IF variant = "impulse"
                        THEN RatMax(Zero, RatSub(prevKickEnergy', prevKickEnergy))
                        ELSE RatAdd(RatMul(SPECTRAL_FLUX_WEIGHT,
                                           calculateSpectralFlux(prevFreqData, TRUE, TRUE,
                                                                 prevFreqData').value),
                                    RatMul(RatSub(One, SPECTRAL_FLUX_WEIGHT),
                                           calculateBassEnergy(TRUE, TRUE, prevFreqData')))
               IN  History' = (IF Len(History) = HistoryCap THEN Tail(History)
                               ELSE History) \o <<v>>
          ELSE History' = History]_vars

\* the energy/flux history is full, more ticks have run than it holds, and a
\* value above zero has moved up from the end
C28_FluxEvicted ==
    /\ variant = "flux"
    /\ ticks > ENERGY_HISTORY_SIZE
    /\ Len(energyHistory) = ENERGY_HISTORY_SIZE
    /\ \E i \in 1..(ENERGY_HISTORY_SIZE - 1) : energyHistory[i] # Zero

\* C29: queue order.  In every reachable state beatBuffer is in increasing
\* timestamp order, consecutive entries more than the refractory interval
\* apart, so that no entry that is due stands behind one that is not.
C29_QueueOrder ==
    /\ \A i \in 1..(Len(beatBuffer) - 1) :
          beatBuffer[i + 1] - beatBuffer[i] > MinInterval
    /\ \A i, j \in DOMAIN beatBuffer :
          (i < j /\ beatBuffer[j] <= now) => beatBuffer[i] <= now

\* two beats are waiting, the first one due and the second one not
C29_HeadDueNextNot ==
    /\ Len(beatBuffer) >= 2
    /\ beatBuffer[1] <= now
    /\ beatBuffer[2] > now

C31_FluxLookBack ==
    [][(variant = "flux" /\ ticks' = ticks + 1) =>
          LET cur == prevFreqData'
              top == Min((FLUX_MAX_HZ * FluxFFT_SIZE) \div DefaultSampleRate, Len(cur) - 1)
              rise[k \in 0..(top + 1)] ==
                  IF k = 0 THEN 0
                  ELSE rise[k - 1] + (IF cur[k] > prevFreqData[k]
                                      THEN cur[k] - prevFreqData[k] ELSE 0)
              flux == Rat(rise[top + 1], (top + 1) * 255)
              low == calculateBassEnergy(TRUE, TRUE, cur)
              last == energyHistory'[Len(energyHistory')]
          IN  /\ cur \in Snapshots \cup FluxSnapshots
              /\ Len(prevFreqData) = Len(cur)
              /\ last = RatAdd(RatMul(Rat(3, 10), flux), RatMul(Rat(7, 10), low))
              /\ cur = prevFreqData => last = RatMul(Rat(7, 10), low)]_vars

\* two ticks have read the same sounding snapshot one after the other: the
\* second one added the bass energy alone to the history, the first one a
\* rise as well
C31_SteadyTone ==
    /\ variant = "flux"
    /\ ticks >= 2
    /\ prevFreqData # NoArray
    /\ prevFreqData # ZeroArray
    /\ Len(energyHistory) >= 2
    /\ energyHistory[Len(energyHistory)]
          = RatMul(Rat(7, 10), calculateBassEnergy(TRUE, TRUE, prevFreqData))
    /\ RatGt(energyHistory[Len(energyHistory) - 1], energyHistory[Len(energyHistory)])

\* C32: range of derived values.  Every stored feature value (band energy,
\* impulse, combined value), every history mean and every threshold the
\* decision compares with (max(MIN_KICK_THRESHOLD, mean * THRESHOLD_MULTIPLIER)
\* over a full impulse history; mean * (1 + adaptiveThreshold) in the
\* energy/flux variant) lies in [0, 1].
C32_DerivedRange ==
    LET unit(r) == r.n >= 0 /\ r.n <= r.d
        mean(h) == RatDivInt(RatSum(h), Len(h))
    IN  /\ unit(prevKickEnergy)
        /\ unit(prevBassEnergy)
        /\ \A i \in DOMAIN kickHistory : unit(kickHistory[i])
        /\ \A i \in DOMAIN energyHistory : unit(energyHistory[i])
        /\ kickHistory # <<>> => unit(mean(kickHistory))
        /\ Len(kickHistory) = HISTORY_SIZE
              => unit(RatMax(MIN_KICK_THRESHOLD,
                             RatMul(mean(kickHistory), THRESHOLD_MULTIPLIER)))
        /\ energyHistory # <<>>
              => /\ unit(mean(energyHistory))
                 /\ unit(RatMul(mean(energyHistory),
                                RatAdd(One, adaptiveThreshold(energyHistory))))

\* C33: no division by zero.  For every snapshot length from 0 and every
\* band, getFrequencyRangeEnergy, calculateBassEnergy and
\* calculateSpectralFlux return 0 early or divide by a positive count: no
\* value they return is the outcome of a division by zero.
C33_NoDivisionByZero ==
    probe.called =>
        /\ probe.prevEnergy.d > 0
        /\ probe.energy.d > 0
        /\ probe.flux.d > 0

\* C34: delivery liveness.  Whenever a detectBeats loop is registered a
\* processBeats loop is registered too, and every beat enqueued is
\* eventually delivered once the clock has reached its timestamp, when
\* frames keep firing and stop() is not called; also when
\* the detect loop was started by the init() that start() calls on a
\* detector that is not initialised.
C34_DeliveryLiveness ==
    /\ [](NumLoops("detect") > 0 => NumLoops("process") > 0)
    /\ \A k \in 1..MaxLoud :
          (Len(enqueued) >= k /\ enqueued[k].beat <= now)
              ~> (Len(delivered) >= k /\ delivered[k].beat = enqueued[k].beat)

\* C35: the enabled flag and the detector stay in step.  Once setup() has
\* succeeded (the playback listener is registered), isEnabled is true
\* exactly when the detect loop is scheduled (rafId is not null), under any
\* order of toggleBeatSync() calls and playback events.
C35_EnabledInStep == listening => (isEnabled <=> rafId # NULL)

\* C36: the flash is non-reentrant and restores the style.  At most one
\* flash is in progress, and isFlashing says whether one is; a flash starts
\* only when none is in progress and an element is known, and what it
\* records as the original backdropFilter and filter are the values the
\* element had before the flash, never the flash's own; once its first
\* timer has fired, and after it has completed, the element has those values
\* again.
C36_FlashRestores ==
    /\ [](/\ Cardinality({tm \in timers : tm.fn # "retry"}) <= 1
          /\ isFlashing <=> \E tm \in timers : tm.fn # "retry"
          /\ \A tm \in {tm \in timers : tm.fn # "retry"} :
                /\ tm.fn = "restore" =>
                      /\ tm.originalBackdropFilter = HostStyle(tm.el).backdropFilter
                      /\ tm.originalFilter = HostStyle(tm.el).filter
                      /\ style[tm.el].backdropFilter = Bright
                /\ tm.fn = "finish" =>
                      /\ style[tm.el].backdropFilter = HostStyle(tm.el).backdropFilter
                      /\ style[tm.el].filter = HostStyle(tm.el).filter
          /\ ~isFlashing => \A el \in Elements : style[el] = HostStyle(el))
    /\ [][(\E tm \in timers' \ timers : tm.fn = "restore")
             => /\ ~isFlashing
                /\ immersiveElement # NoElement
                /\ \A el \in Elements \ {immersiveElement} : style'[el] = style[el]]_vars

\* the first timer of a flash has fired on an element whose backdropFilter
\* was set by the page: the value is back
C36_Restored ==
    /\ isFlashing
    /\ \E tm \in timers :
          /\ tm.fn = "finish"
          /\ HostStyle(tm.el).backdropFilter # ""
          /\ style[tm.el].backdropFilter = HostStyle(tm.el).backdropFilter
          /\ style[tm.el].transition = TransitionOut

\* C37: the flash completes.  Every flash that starts ends: isFlashing
\* returns to false once the 50 ms and the 150 ms timer have fired, also when
\* tryFindNow replaces immersiveElement while the flash is in progress.
C37_FlashCompletes == isFlashing ~> ~isFlashing

\* a flash is in progress on an element that is no longer immersiveElement
C37_ReplacedWhileFlashing ==
    /\ isFlashing
    /\ \E tm \in timers :
          /\ tm.fn = "restore"
          /\ immersiveElement # tm.el

\* C38: back-off of the element discovery.  retryIntervalMs is one of 2000,
\* 3000, 4000 and 5000: it is 2000 plus 1000 for each retry that failed since
\* the element was last found, and not more than MAX_RETRY_INTERVAL_MS.  At
\* most one retry timer is pending, the one retryTimer names, and it was set
\* with the present interval.
C38_BackOff ==
    /\ retryIntervalMs \in {2000, 3000, 4000, 5000}
    /\ retryIntervalMs = IF retries >= 3 THEN 5000 ELSE 2000 + 1000 * retries
    /\ Cardinality({tm \in timers : tm.fn = "retry"}) <= 1
    /\ \A tm \in timers : tm.fn = "retry" => tm.id = retryTimer /\ tm.delay = retryIntervalMs
    /\ retryTimer # NULL => \E tm \in timers : tm.fn = "retry"

\* a retry has failed at the greatest interval, which stayed
C38_AtTheCap ==
    /\ retries > 3
    /\ retryIntervalMs = MAX_RETRY_INTERVAL_MS
    /\ \E tm \in timers : tm.fn = "retry"

\* C39: the watchers are torn down once the element is known.  Whenever
\* immersiveElement is set, no MutationObserver is attached and no retry
\* timer is pending.
C39_WatchersTornDown ==
    immersiveElement # NoElement => /\ ~observer
                                    /\ \A tm \in timers : tm.fn # "retry"
                                    /\ retryTimer = NULL

====
